---- MODULE Spec2Model ----
(***************************************************************************)
(* Model of notebooks/week5/lab_5_5_model_refinement_instructor.py: the    *)
(* two artifact resolvers (load_or_create_demo_data, safe_load_model), the *)
(* two GridSearchCV searches and the compare-and-save step, run as the     *)
(* notebook runs them, cell after cell, against a file store.              *)
(*                                                                         *)
(* Abstractions: a sample's ten real features are one value of Features; a *)
(* fitted model is its predict function, a tuple indexed by feature + 1;   *)
(* an accuracy is the pair <<correct, total>> that accuracy_score divides; *)
(* what the library's training returns (a fitted predict function, the     *)
(* fold scores of a grid combination) is an input of the run, drawn from a *)
(* bounded family.                                                         *)
(*                                                                         *)
(* Two more notebooks are modelled beside it, each with its own variables  *)
(* and its own specification: week3/lab_3_3_automated_etl_instructor.py    *)
(* (the cells of one run against the SQL session's relations) and          *)
(* week1/data_wrangling_pandas.py (the cells of an interactive session     *)
(* over the two CSV files).                                                *)
(***************************************************************************)
EXTENDS Integers, Sequences, FiniteSets, TLC

VARIABLES
    fs,                  \* /dbfs/FileStore: path -> [kind, data]
    lib,                 \* the generator behind random_state (fixed per world)
    pc,                  \* the statement the run is at
    err,                 \* the exception that ended the run, or "none"
    out,                 \* what the run printed
    calls,               \* the library calls the run made on models and files
    X_train, X_test, y_train, y_test,
    old_model,
    train_acc, test_acc,
    rf_grid_search, log_reg_grid_search,
    old_test_acc, new_test_acc,
    \* week3/lab_3_3_automated_etl_instructor.py
    catalog,             \* the SQL session: relation name -> [kind, rows]
    final_df,            \* the Python variable final_df (a DataFrame's rows)
    etl_pc,              \* the cell the ETL run is at
    etl_err,             \* the exception that ended the ETL run, or "none"
    sql_log,             \* the tables the run's CREATE OR REPLACE statements wrote
    validation,          \* what the four validation queries returned
    \* week1/data_wrangling_pandas.py
    volume,              \* the two CSV files of the Volume: name -> rows
    menu_df, order_df,   \* the frames, NotLoaded before the load cell has run
    merged_df, bad_merge,
    last_cell,           \* the cell that ran last
    cell_err,            \* the exception that cell ended with, or "none"
    cell_out             \* what that cell printed

week5_vars == <<fs, lib, pc, err, out, calls, X_train, X_test, y_train, y_test,
                old_model, train_acc, test_acc, rf_grid_search, log_reg_grid_search,
                old_test_acc, new_test_acc>>

week3_vars == <<catalog, final_df, etl_pc, etl_err, sql_log, validation>>

week1_vars == <<volume, menu_df, order_df, merged_df, bad_merge, last_cell, cell_err, cell_out>>

\* the notebooks other than the model-refinement lab
other_notebooks == <<week3_vars, week1_vars>>

vars == <<week5_vars, other_notebooks>>

----------------------------------------------------------------------------
(* Bounds of the model *)

\* generators 0..MaxLib stand for the library's seeded random streams: each
\* fixes the synthetic dataset and the fold scores a search observes
MaxLib == 2

----------------------------------------------------------------------------
(* Program constants *)

default_random_state == 42
n_samples == 400
n_classes == 2
weight0_pct == 55
test_size_pct == 20
cv == 3
flip_y_pct == 1

----------------------------------------------------------------------------
(* Paths *)

X_train_path == "X_train_transformed.npy"
X_test_path == "X_test_transformed.npy"
y_train_path == "y_train.pkl"
y_test_path == "y_test.pkl"
best_model_path == "stedi_best_model.pkl"

\* the preprocessing pipeline the lab before this one saved beside the model;
\* no statement of the notebook names it
feature_pipeline_path == "stedi_feature_pipeline.pkl"

DataPaths == <<X_train_path, X_test_path, y_train_path, y_test_path>>

----------------------------------------------------------------------------
(* Values *)

Features == 0..1
Labels == 0..(n_classes - 1)

\* a predict function: PredictFns[f + 1] is the label predicted for feature f
PredictFns == {<<a, b>> : a \in Labels, b \in Labels}

NotFitted == <<>>
None == <<>>

RF == "RandomForestClassifier"
LR == "LogisticRegression"

\* An estimator object: its class, the index of its hyperparameter combination
\* (0 for the constructor defaults) and its fitted state.
Estimator(cls, combo, fitted) == [cls |-> cls, combo |-> combo, estimators_ |-> fitted]

NoObject == Estimator("none", 0, NotFitted)

IsFitted(m) == m.estimators_ # NotFitted

\* hasattr(m, "feature_importances_"): a property of the forest classes that
\* raises NotFittedError (an AttributeError) until the forest is fitted
HasFeatureImportances(m) == m.cls = RF /\ IsFitted(m)

Absent == [kind |-> "absent", data |-> None]
MalformedArray == [kind |-> "malformed", data |-> None]
MalformedPickle == [kind |-> "malformed", data |-> NoObject]
AbsentPickle == [kind |-> "absent", data |-> NoObject]
File(v) == [kind |-> "ok", data |-> v]

----------------------------------------------------------------------------
(* Files: np.load and joblib.load *)

\* The outcome of a call: the exception it raised ("none" when it returned)
\* and the value it returned.
Returned(v) == [exc |-> "none", val |-> v]
Raised(e, v) == [exc |-> e, val |-> v]

\* np.load(path): FileNotFoundError when the file is missing, ValueError when
\* it is not an array file
np_load(store, path) ==
    CASE store[path].kind = "absent" -> Raised("FileNotFoundError", None)
      [] store[path].kind = "malformed" -> Raised("ValueError", None)
      [] OTHER -> Returned(store[path].data)

\* joblib.load(path): FileNotFoundError when the file is missing, an unpickling
\* error when it does not hold a pickle
joblib_load(store, path, nothing) ==
    CASE store[path].kind = "absent" -> Raised("FileNotFoundError", nothing)
      [] store[path].kind = "malformed" -> Raised("UnpicklingError", nothing)
      [] OTHER -> Returned(store[path].data)

\* a dump that writes the file and clears what else the folder holds beside
\* the arrays
joblib_dump_clearing_folder(store, obj, path) ==
    [p \in DOMAIN store |->
        IF p = path THEN [kind |-> "ok", data |-> obj]
        ELSE IF p = feature_pipeline_path THEN [kind |-> "absent", data |-> store[p].data]
        ELSE store[p]]

\* joblib.dump(obj, path): creates or overwrites the file
joblib_dump(store, obj, path) == [store EXCEPT ![path] = File(obj)]

\* the handler written as a bare except Exception
broad_except(e) == e # "none"

\* the handler written for the wrong exception type
wrong_except(e) == e = "KeyError"

\* except FileNotFoundError
IsFileNotFoundError(e) == e = "FileNotFoundError"

\* except Exception: every exception the loaders raise derives from Exception
IsException(e) == e # "none"

----------------------------------------------------------------------------
(* Sequences *)

Range(s) == {s[i] : i \in DOMAIN s}

Take(s, idx) == [j \in 1..Len(idx) |-> s[idx[j]]]

RECURSIVE SumSeq(_)
SumSeq(s) == IF s = <<>> THEN 0 ELSE Head(s) + SumSeq(Tail(s))

----------------------------------------------------------------------------
(* sklearn.datasets.make_classification and model_selection.train_test_split *)

\* The class of sample i before label noise: weights[0] of the samples are of
\* class 0, in the order the generator's shuffle leaves them.
clean_label(i, g) == IF (i * 9 + g) % 100 < weight0_pct THEN 0 ELSE 1

\* flip_y = 0.01 (the default): the generator redraws the label of 1% of the
\* samples at random
flipped(i, g) == (i * 7 + g * 3) % 100 < flip_y_pct

make_classification(n, random_state, g) ==
    LET y == [i \in 1..n |->
                 IF flipped(i, g) THEN (i + g + random_state) % n_classes
                                  ELSE clean_label(i, g)]
        X == [i \in 1..n |->
                 IF (i * 3 + g) % 5 = 0 THEN 1 - clean_label(i, g)
                                        ELSE clean_label(i, g)]
    IN  <<X, y>>

\* the allocation with no stratification: the draws are taken from the first
\* class as long as it lasts
approximate_mode_first_class(counts, n_draws, g) ==
    LET first == IF counts[1] < n_draws THEN counts[1] ELSE n_draws
    IN  <<first, n_draws - first>>

\* _approximate_mode(class_counts, n_draws, rng), two classes: the
\* proportional shares rounded down, the missing draw given to the class with
\* the largest remainder, a tie between remainders broken by the generator.
approximate_mode(counts, n_draws, g) ==
    LET total == counts[1] + counts[2]
        floored == [c \in 1..2 |-> (counts[c] * n_draws) \div total]
        rem == [c \in 1..2 |-> (counts[c] * n_draws) % total]
        need == n_draws - (floored[1] + floored[2])
        lucky == IF rem[1] > rem[2] THEN 1
                 ELSE IF rem[2] > rem[1] THEN 2
                 ELSE (g % 2) + 1
    IN  [c \in 1..2 |-> floored[c] + (IF need > 0 /\ c = lucky THEN 1 ELSE 0)]

\* ceil(test_size * n), test_size = 0.2
n_test_of(n) == (test_size_pct * n + 99) \div 100

\* The indices a StratifiedShuffleSplit with one split yields. Every class is
\* permuted by the generator; its first n_i samples go to the train partition
\* and the next t_i to the test one.
split_indices(y, random_state, g) ==
    LET n == Len(y)
        n_test == n_test_of(n)
        n_train == n - n_test
        all == [i \in 1..n |-> i]
        members == <<SelectSeq(all, LAMBDA i : y[i] = 0), SelectSeq(all, LAMBDA i : y[i] = 1)>>
        counts == <<Len(members[1]), Len(members[2])>>
        n_i == approximate_mode(counts, n_train, g)
        left == <<counts[1] - n_i[1], counts[2] - n_i[2]>>
        t_i == approximate_mode(left, n_test, g)
        rot == [c \in 1..2 |-> IF counts[c] = 0 THEN 0
                               ELSE (g * 13 + random_state) % counts[c]]
        perm(c, j) == members[c][((j - 1 + rot[c]) % counts[c]) + 1]
        train_idx == [j \in 1..(n_i[1] + n_i[2]) |->
                         IF j <= n_i[1] THEN perm(1, j) ELSE perm(2, j - n_i[1])]
        test_idx == [j \in 1..(t_i[1] + t_i[2]) |->
                         IF j <= t_i[1] THEN perm(1, n_i[1] + j)
                                        ELSE perm(2, n_i[2] + j - t_i[1])]
    IN  <<train_idx, test_idx>>

\* train_test_split(X, y, test_size=0.2, random_state=..., stratify=y)
train_test_split(X, y, random_state, g) ==
    LET idx == split_indices(y, random_state, g)
    IN  <<Take(X, idx[1]), Take(X, idx[2]), Take(y, idx[1]), Take(y, idx[2])>>

----------------------------------------------------------------------------
(* The two resolvers *)

LoadedDataMsg == "Loaded transformed STEDI datasets from /dbfs/FileStore."
FallbackDataMsg == "Files not found. Creating a small synthetic dataset for demo."
LoadedModelMsg == "Loaded model from /dbfs/FileStore/stedi_best_model.pkl"
FallbackModelMsg == "Could not load /dbfs/FileStore/stedi_best_model.pkl. Using provided default model instead."

\* print of a text, and of a text with a score
Say(text) == <<text, 0, 0>>
Report(text, acc) == <<text, acc[1], acc[2]>>

\* The outcome of a resolver: the exception it let through ("none" when it
\* returned), the value it returned and what it printed.
Outcome(e, v, printed) == [exc |-> e, val |-> v, printed |-> printed]

\* the body of the except FileNotFoundError branch
synthetic_data(random_state, g) ==
    LET Xy == make_classification(n_samples, random_state, g)
    IN  train_test_split(Xy[1], Xy[2], random_state, g)

\* the try block with the two label files loaded into each other's variable
try_block_swapped(store) ==
    LET a == np_load(store, X_train_path)
        b == np_load(store, X_test_path)
        c == joblib_load(store, y_train_path, None)
        d == joblib_load(store, y_test_path, None)
    IN  IF a.exc # "none" \/ b.exc # "none" \/ c.exc # "none" \/ d.exc # "none"
          THEN Raised((CHOOSE r \in {a, b, c, d} : r.exc # "none").exc, None)
          ELSE Returned(<<a.val, b.val, d.val, c.val>>)

\* The try block runs the four loads in order; the first one that raises ends
\* it with that exception.
try_block(store) ==
    LET a == np_load(store, X_train_path)
        b == np_load(store, X_test_path)
        c == joblib_load(store, y_train_path, None)
        d == joblib_load(store, y_test_path, None)
    IN  IF a.exc # "none" THEN Raised(a.exc, None)
        ELSE IF b.exc # "none" THEN Raised(b.exc, None)
        ELSE IF c.exc # "none" THEN Raised(c.exc, None)
        ELSE IF d.exc # "none" THEN Raised(d.exc, None)
        ELSE Returned(<<a.val, b.val, c.val, d.val>>)

\* synthetic_data for the default seed, computed once per generator
SyntheticData == [g \in 0..MaxLib |-> synthetic_data(default_random_state, g)]

\* the fallback with a generator that is not seeded by random_state alone:
\* what it draws depends on what else the session has touched
load_or_create_demo_data_unseeded(store, random_state, g) ==
    LET t == try_block(store)
        drift == IF store[best_model_path].kind = "ok" THEN store[best_model_path].data.combo ELSE 0
    IN  IF t.exc = "none"
          THEN Outcome("none", t.val, <<Say(LoadedDataMsg)>>)
        ELSE IF IsFileNotFoundError(t.exc)
          THEN Outcome("none", SyntheticData[(g + drift) % (MaxLib + 1)], <<Say(FallbackDataMsg)>>)
        ELSE Outcome(t.exc, None, <<>>)

\* the fallback keeping the arrays that were loaded before the missing file
\* was met and generating only the rest
load_or_create_demo_data_partial(store, random_state, g) ==
    LET t == try_block(store)
        syn == IF random_state = default_random_state
                 THEN SyntheticData[g] ELSE synthetic_data(random_state, g)
        first_missing == CHOOSE i \in 1..5 :
                            /\ i = 5 \/ store[DataPaths[i]].kind # "ok"
                            /\ \A j \in 1..(i - 1) : store[DataPaths[j]].kind = "ok"
    IN  IF t.exc = "none"
          THEN Outcome("none", t.val, <<Say(LoadedDataMsg)>>)
        ELSE IF IsFileNotFoundError(t.exc)
          THEN Outcome("none",
                       [i \in 1..4 |-> IF i < first_missing
                                         THEN store[DataPaths[i]].data ELSE syn[i]],
                       <<Say(FallbackDataMsg)>>)
        ELSE Outcome(t.exc, None, <<>>)

load_or_create_demo_data(store, random_state, g) ==
    LET t == try_block(store)
    IN  IF t.exc = "none"
          THEN Outcome("none", t.val, <<Say(LoadedDataMsg)>>)
        ELSE IF IsFileNotFoundError(t.exc)
          THEN Outcome("none",
                       IF random_state = default_random_state
                         THEN SyntheticData[g] ELSE synthetic_data(random_state, g),
                       <<Say(FallbackDataMsg)>>)
        ELSE Outcome(t.exc, None, <<>>)

\* the model resolver falling back without a word
safe_load_model_silent(store, path, default_model) ==
    LET r == joblib_load(store, path, NoObject)
    IN  IF r.exc = "none"
          THEN Outcome("none", r.val, <<Say(LoadedModelMsg)>>)
          ELSE Outcome("none", default_model, <<>>)

safe_load_model(store, path, default_model) ==
    LET r == joblib_load(store, path, NoObject)
    IN  IF r.exc = "none"
          THEN Outcome("none", r.val, <<Say(LoadedModelMsg)>>)
        ELSE IF IsException(r.exc)
          THEN Outcome("none", default_model, <<Say(FallbackModelMsg)>>)
        ELSE Outcome(r.exc, NoObject, <<>>)

----------------------------------------------------------------------------
(* Estimators and accuracy *)

\* RandomForestClassifier(random_state=42), not fitted
DefaultModel == Estimator(RF, 0, NotFitted)

\* the condition with the not dropped: it never holds
needs_fit_not_dropped(m) == HasFeatureImportances(m) /\ m.cls = RF /\ ~IsFitted(m)

\* the condition without the isinstance test
needs_fit_any_class(m) == ~HasFeatureImportances(m)

\* the condition of the fit-if-default statement
needs_fit(m) == ~HasFeatureImportances(m) /\ m.cls = RF

\* m.fit(X, y): the forest the training returns, f, becomes the model's state
fit(m, f) == [m EXCEPT !.estimators_ = f]

\* m.predict(X): NotFittedError on a model that was never fitted
predict(m, X) ==
    IF IsFitted(m) THEN Returned([i \in 1..Len(X) |-> m.estimators_[X[i] + 1]])
                   ELSE Raised("NotFittedError", None)

\* accuracy_score(y_true, y_pred): the fraction of exact matches, kept as the
\* pair <<matches, samples>> of the division
accuracy_score(y_true, y_pred) ==
    <<Cardinality({i \in 1..Len(y_true) : y_true[i] = y_pred[i]}), Len(y_true)>>

\* a >= b for two fractions <<numerator, denominator>>
GE(a, b) == IF a[2] = b[2] THEN a[1] >= b[1] ELSE a[1] * b[2] >= b[1] * a[2]
EQ(a, b) == GE(a, b) /\ GE(b, a)

----------------------------------------------------------------------------
(* Section 3: the parameter grids, keys in the sorted order ParameterGrid uses *)

\* max_depth (0 stands for None), min_samples_leaf, n_estimators
rf_param_grid == << <<0, 10, 20>>, <<1, 2, 4>>, <<100, 200>> >>

\* C in tenths, penalty, solver
log_reg_param_grid == << <<1, 10, 50, 100>>, <<"l2">>, <<"lbfgs">> >>

\* ParameterGrid(grid): the Cartesian product of the value lists, the last key
\* varying fastest
RECURSIVE ParameterGrid(_)
ParameterGrid(grid) ==
    IF grid = <<>> THEN << <<>> >>
    ELSE LET rest == ParameterGrid(Tail(grid))
             head == Head(grid)
         IN  [j \in 1..(Len(head) * Len(rest)) |->
                 <<head[((j - 1) \div Len(rest)) + 1]>> \o rest[((j - 1) % Len(rest)) + 1]]

\* the candidates of the two searches
rf_candidates == ParameterGrid(rf_param_grid)
log_reg_candidates == ParameterGrid(log_reg_param_grid)

----------------------------------------------------------------------------
(* Section 4: GridSearchCV(estimator, param_grid, cv=3, scoring="accuracy").fit *)

\* the size of validation fold k of n samples
fold_size(n, n_splits, k) == n \div n_splits + (IF k <= n % n_splits THEN 1 ELSE 0)

\* The number of validation samples of fold k that combination i classifies
\* correctly, in fold-score table t: what training and scoring return for the
\* fixed random_state.
fold_correct(t, i, k, size) == size - ((t * ((i - 3 * t) * (i - 3 * t) + k * i)) % (size + 1))

RECURSIVE ProdSeq(_)
ProdSeq(s) == IF s = <<>> THEN 1 ELSE Head(s) * ProdSeq(Tail(s))

\* mean_test_score of one combination: the mean over the folds of
\* correct / size, as a fraction over n_splits * (the product of the sizes)
mean_score(scores) ==
    LET sizes == [k \in 1..Len(scores) |-> scores[k][2]]
        all == ProdSeq(sizes)
    IN  <<SumSeq([k \in 1..Len(scores) |-> scores[k][1] * (all \div sizes[k])]),
          Len(scores) * all>>

\* the ranking read the wrong way round: the first combination of the last rank
worst_index_of(means) ==
    CHOOSE i \in 1..Len(means) :
        /\ \A j \in 1..Len(means) : GE(means[j], means[i])
        /\ \A j \in 1..(i - 1) : ~GE(means[i], means[j])

\* best_index_: rank_test_score.argmin(), the first combination of rank 1
best_index_of(means) ==
    CHOOSE i \in 1..Len(means) :
        /\ \A j \in 1..Len(means) : GE(means[i], means[j])
        /\ \A j \in 1..(i - 1) : ~GE(means[j], means[i])

NoSearch ==
    [exc |-> "none", params |-> <<>>, split_test_score |-> <<>>, mean_test_score |-> <<>>,
     best_index_ |-> 0, best_score_ |-> <<0, 1>>, best_estimator_ |-> NoObject]

\* the search that lowers the fold count to the number of samples instead of
\* raising
cross_validate_fewer_folds(params, n_splits, X, y, t) ==
    LET n == Len(y)
        folds == IF n_splits > n THEN n ELSE n_splits
        sizes == [k \in 1..folds |-> fold_size(n, folds, k)]
        split == [i \in 1..Len(params) |->
                    [k \in 1..folds |-> <<fold_correct(t, i, k, sizes[k]), sizes[k]>>]]
        means == [i \in 1..Len(params) |-> mean_score(split[i])]
        best == best_index_of(means)
    IN  [exc |-> "none", params |-> params, split_test_score |-> split,
         mean_test_score |-> means, best_index_ |-> best,
         best_score_ |-> means[best], best_estimator_ |-> NoObject]

\* The search of fit(X, y): the folds are checked, then every combination is
\* scored on every fold and ranked.
cross_validate(params, n_splits, X, y, t) ==
    LET n == Len(y)
        counts == [c \in Labels |-> Cardinality({i \in 1..n : y[i] = c})]
        sizes == [k \in 1..n_splits |-> fold_size(n, n_splits, k)]
        split == [i \in 1..Len(params) |->
                    [k \in 1..n_splits |-> <<fold_correct(t, i, k, sizes[k]), sizes[k]>>]]
        means == [i \in 1..Len(params) |-> mean_score(split[i])]
        best == best_index_of(means)
    IN  IF n_splits > n \/ \A c \in Labels : n_splits > counts[c]
          THEN [NoSearch EXCEPT !.exc = "ValueError"]
          ELSE [exc |-> "none", params |-> params, split_test_score |-> split,
                mean_test_score |-> means, best_index_ |-> best,
                best_score_ |-> means[best], best_estimator_ |-> NoObject]

\* refit=True: the best combination is fitted on all of X, y; the training
\* returns f
refit(search, cls, f) ==
    IF search.exc # "none" THEN search
    ELSE [search EXCEPT !.best_estimator_ = Estimator(cls, search.best_index_, f)]

GridSearchCV_fit(cls, param_grid, n_splits, X, y, t, f) ==
    refit(cross_validate(ParameterGrid(param_grid), n_splits, X, y, t), cls, f)

----------------------------------------------------------------------------
(* Section 6: the decision *)

\* the comparison written with > (a tie keeps the old model)
strictly_better(new, old) == GE(new, old) /\ ~GE(old, new)

\* the comparison written the wrong way round
worse_or_equal(new, old) == GE(old, new)

\* new_test_acc >= old_test_acc
as_good_or_better(new, old) == GE(new, old)

SaveMsg == "New model is as good or better - saving as new best model."
KeepMsg == "Old model performed better. Keeping the old model."

----------------------------------------------------------------------------
(* week3/lab_3_3_automated_etl_instructor.py: the SQL session *)

RECURSIVE Flatten(_)
Flatten(ss) == IF ss = <<>> THEN <<>> ELSE Head(ss) \o Flatten(Tail(ss))

\* a row of the curated data
Row(customer, device_id, step_label, source_label) ==
    [customer |-> customer, device_id |-> device_id,
     step_label |-> step_label, source_label |-> source_label]

sample_data ==
    <<Row("CUST-001", "DEV-101", "step", "device"),
      Row("CUST-002", "DEV-102", "no_step", "step"),
      Row("CUST-003", "DEV-103", "step", "device"),
      Row("CUST-004", "DEV-104", "no_step", "step")>>

\* the names the SQL cells and spark.table resolve
final_df_name == "final_df"
labeled_step_test == "labeled_step_test"
raw_device_message == "<your_catalog>.<your_schema>.raw_device_message"
raw_step_trainer == "<your_catalog>.<your_schema>.raw_step_trainer"
raw_demographics == "<your_catalog>.<your_schema>.raw_demographics"

RelationNames ==
    {final_df_name, labeled_step_test, raw_device_message, raw_step_trainer, raw_demographics}

\* a relation of the session: a table of the schema, a temporary view, or a
\* name that resolves to nothing
NoRelation == [kind |-> "absent", rows |-> <<>>]
Table(rows) == [kind |-> "table", rows |-> rows]
TempView(rows) == [kind |-> "view", rows |-> rows]

\* CREATE OR REPLACE TABLE target AS SELECT * FROM source: the source name
\* is resolved in the session, and the target becomes a table of its rows
create_or_replace_table_as_select(cat, target, source) ==
    IF cat[source].kind = "absent"
      THEN Raised("AnalysisException", cat)
      ELSE Returned([cat EXCEPT ![target] = Table(cat[source].rows)])

\* spark.table(name)
spark_table(cat, name) ==
    IF cat[name].kind = "absent" THEN Raised("AnalysisException", <<>>)
                                 ELSE Returned(cat[name].rows)

\* df.createOrReplaceTempView(name)
createOrReplaceTempView(cat, df, name) == [cat EXCEPT ![name] = TempView(df)]

\* left.join(right, on=key, how="inner")
inner_join(left, right, key) ==
    Flatten([i \in 1..Len(left) |->
        LET matches == SelectSeq(right, LAMBDA r : r[key] = left[i][key])
        IN  [j \in 1..Len(matches) |-> left[i] @@ matches[j]]])

\* a nullable integer column value, and NULL in a string column
Value(v) == [null |-> FALSE, v |-> v]
NullInt == [null |-> TRUE, v |-> 0]
NULL == "NULL"

\* F.col(c) > n: NULL when the column is NULL
col_gt(x, n) == IF x.null THEN "null" ELSE IF x.v > n THEN "true" ELSE "false"

\* F.when(cond, a) with no otherwise: NULL where the condition is not true
when_only(cond, a, b) == IF cond = "true" THEN a ELSE NULL

\* F.when(cond, a).otherwise(b): a where the condition is true, b where it is
\* false or NULL
when_otherwise(cond, a, b) == IF cond = "true" THEN a ELSE b

\* steps 3 to 5 of the template: join, label, select
transform(df_device, df_step, df_demo) ==
    LET df_joined == inner_join(inner_join(df_device, df_step, "sensor_reading_time"),
                                df_demo, "serial_number")
    IN  [i \in 1..Len(df_joined) |->
            Row(df_joined[i].customer, df_joined[i].device_id,
                when_otherwise(col_gt(df_joined[i].heart_rate, 100), "step", "no_step"),
                when_otherwise(col_gt(df_joined[i].heart_rate, 100), "step", "device"))]

\* SELECT col, COUNT(*) FROM rows GROUP BY col
group_count(rows, col) ==
    {<<v, Cardinality({i \in DOMAIN rows : rows[i][col] = v})>> :
        v \in {rows[i][col] : i \in DOMAIN rows}}

\* SELECT * FROM rows WHERE col NOT IN allowed OR col IS NULL (NOT IN is not
\* true of a NULL, which the second disjunct selects)
invalid_rows(rows, col, allowed) ==
    SelectSeq(rows, LAMBDA r : (r[col] # NULL /\ r[col] \notin allowed) \/ r[col] = NULL)

NoValidation == [step_counts |-> {}, bad_steps |-> <<>>, source_counts |-> {}, bad_sources |-> <<>>]

\* the ETL notebook is not attached to a session
Week3Closed ==
    /\ catalog = [n \in RelationNames |-> NoRelation]
    /\ final_df = <<>>
    /\ etl_pc = "closed"
    /\ etl_err = "none"
    /\ sql_log = <<>>
    /\ validation = NoValidation

----------------------------------------------------------------------------
(* week1/data_wrangling_pandas.py: the frames and the merge *)

NaN == "NaN"
NotLoaded == <<>>

MenuRow(id, category, price) == [menu_item_id |-> id, category |-> category, price |-> price]
OrderRow(order_id, item_id) == [order_id |-> order_id, item_id |-> item_id]

\* s.str.strip().str.title() on the spellings the menu file uses
strip_title(c) ==
    CASE c \in {"asian", " Asian ", "ASIAN", "Asian"} -> "Asian"
      [] c \in {"unknown", "Unknown"} -> "Unknown"
      [] OTHER -> c

\* the cleaning cell: fillna("Unknown") on category, dropna(subset=["price"]),
\* then strip and title-case category
clean_menu(df) ==
    LET filled == [i \in 1..Len(df) |->
                      [df[i] EXCEPT !.category = IF @ = NaN THEN "Unknown" ELSE @]]
        priced == SelectSeq(filled, LAMBDA r : r.price # NaN)
    IN  [i \in 1..Len(priced) |-> [priced[i] EXCEPT !.category = strip_title(@)]]

\* df.drop_duplicates() with no subset: the first of every run of equal rows
\* is kept
drop_duplicates_whole_row(df, col) ==
    LET kept == SelectSeq([i \in 1..Len(df) |-> <<i, df[i]>>],
                          LAMBDA p : \A j \in 1..(p[1] - 1) : df[j] # p[2])
    IN  [k \in 1..Len(kept) |-> kept[k][2]]

\* df.drop_duplicates(subset=[col]): the first row of every key is kept
drop_duplicates(df, col) ==
    LET kept == SelectSeq([i \in 1..Len(df) |-> <<i, df[i]>>],
                          LAMBDA p : \A j \in 1..(p[1] - 1) : df[j][col] # p[2][col])
    IN  [k \in 1..Len(kept) |-> kept[k][2]]

is_unique(df, col) == \A i, j \in 1..Len(df) : df[i][col] = df[j][col] => i = j

null_menu_row == MenuRow(NaN, NaN, NaN)

\* left.merge(right, how="left", left_on=..., right_on=..., validate="many_to_one"):
\* MergeError when the right keys are not unique; otherwise every left row
\* with its match, or with missing values
merge(left, right, left_on, right_on) ==
    IF ~is_unique(right, right_on)
      THEN Raised("MergeError", NotLoaded)
      ELSE Returned([i \in 1..Len(left) |->
              LET matches == SelectSeq(right, LAMBDA r : r[right_on] = left[i][left_on])
              IN  left[i] @@ (IF matches = <<>> THEN null_menu_row ELSE matches[1])])

BadMergeMsg == "Bad merge error:"

\* the notebook is not attached
Week1Closed ==
    /\ volume = <<>>
    /\ menu_df = NotLoaded /\ order_df = NotLoaded
    /\ merged_df = NotLoaded /\ bad_merge = NotLoaded
    /\ last_cell = "none"
    /\ cell_err = "none"
    /\ cell_out = <<>>

----------------------------------------------------------------------------
(* The file store before the first run *)

\* the transformed STEDI arrays a previous lab saved: six train samples, three
\* of each class, and three test samples
StoredData == [X_train |-> <<0, 0, 1, 1, 0, 1>>, y_train |-> <<0, 0, 0, 1, 1, 1>>,
               X_test |-> <<0, 1, 1>>, y_test |-> <<0, 1, 1>>]

ArrayFiles(v) == {Absent, MalformedArray, File(v)}

\* what stedi_best_model.pkl may hold: nothing, bytes that do not unpickle, or
\* an estimator of either family, fitted or not
StoredModels ==
    {Estimator(cls, 0, f) : cls \in {RF, LR}, f \in PredictFns \cup {NotFitted}}

ModelFiles == {AbsentPickle, MalformedPickle} \cup {File(m) : m \in StoredModels}

\* what stedi_feature_pipeline.pkl may hold: nothing, or the saved pipeline
StoredPipeline == Estimator("Pipeline", 0, NotFitted)

PipelineFiles == {AbsentPickle, File(StoredPipeline)}

StorePaths == Range(DataPaths) \cup {best_model_path, feature_pipeline_path}

Stores ==
    {[p \in StorePaths |->
         CASE p = X_train_path -> a
           [] p = X_test_path -> b
           [] p = y_train_path -> c
           [] p = y_test_path -> d
           [] p = best_model_path -> m
           [] OTHER -> q] :
        a \in ArrayFiles(StoredData.X_train), b \in ArrayFiles(StoredData.X_test),
        c \in ArrayFiles(StoredData.y_train), d \in ArrayFiles(StoredData.y_test),
        m \in ModelFiles, q \in PipelineFiles}

NoAcc == <<0, 0>>

\* the notebook's variables before its first cell has run
Fresh ==
    /\ pc = "load_data"
    /\ err = "none"
    /\ out = <<>>
    /\ calls = <<>>
    /\ X_train = None /\ X_test = None /\ y_train = None /\ y_test = None
    /\ old_model = NoObject
    /\ train_acc = NoAcc /\ test_acc = NoAcc
    /\ rf_grid_search = NoSearch /\ log_reg_grid_search = NoSearch
    /\ old_test_acc = NoAcc /\ new_test_acc = NoAcc

\* the stores whose four dataset files were saved together, are all missing,
\* or are all unreadable
RunStores ==
    {st \in Stores : \A p \in Range(DataPaths) : st[p].kind = st[X_train_path].kind}

\* a run of the whole notebook
Init ==
    /\ Week3Closed /\ Week1Closed
    /\ fs \in RunStores
    /\ lib \in 0..MaxLib
    /\ Fresh

\* the first cell of Section 1, on every store
InitResolvers ==
    /\ Week3Closed /\ Week1Closed
    /\ fs \in Stores
    /\ lib \in 0..MaxLib
    /\ Fresh

----------------------------------------------------------------------------
(* The run, statement by statement *)

memory == <<X_train, X_test, y_train, y_test, old_model, train_acc, test_acc,
            rf_grid_search, log_reg_grid_search, old_test_acc, new_test_acc>>

\* an exception that is noted while the cells after it still run
Abort_falls_through(e) == pc' = "decide" /\ err' = e

\* an uncaught exception ends the run
Abort(e) == pc' = "failed" /\ err' = e

\* X_train, X_test, y_train, y_test = load_or_create_demo_data()
LoadData ==
    /\ UNCHANGED other_notebooks
    /\ pc = "load_data"
    /\ LET r == load_or_create_demo_data(fs, default_random_state, lib)
       IN  /\ out' = out \o r.printed
           /\ IF r.exc # "none"
                THEN /\ Abort(r.exc)
                     /\ UNCHANGED <<X_train, X_test, y_train, y_test>>
                ELSE /\ X_train' = r.val[1] /\ X_test' = r.val[2]
                     /\ y_train' = r.val[3] /\ y_test' = r.val[4]
                     /\ pc' = "load_model" /\ err' = err
    /\ UNCHANGED <<fs, lib, calls, old_model, train_acc, test_acc, rf_grid_search,
                   log_reg_grid_search, old_test_acc, new_test_acc>>

\* old_model = safe_load_model(best_model_path, RandomForestClassifier(random_state=42))
LoadModel ==
    /\ UNCHANGED other_notebooks
    /\ pc = "load_model"
    /\ LET r == safe_load_model(fs, best_model_path, DefaultModel)
       IN  /\ out' = out \o r.printed
           /\ IF r.exc # "none"
                THEN Abort(r.exc) /\ old_model' = old_model
                ELSE old_model' = r.val /\ pc' = "fit_default" /\ err' = err
    /\ UNCHANGED <<fs, lib, calls, X_train, X_test, y_train, y_test, train_acc, test_acc,
                   rf_grid_search, log_reg_grid_search, old_test_acc, new_test_acc>>

\* the fit-if-default statement followed by the search, the baseline skipped
FitDefault_skips_baseline ==
    /\ UNCHANGED other_notebooks
    /\ pc = "fit_default"
    /\ IF needs_fit(old_model)
         THEN \E f \in PredictFns :
                 /\ old_model' = fit(old_model, f)
                 /\ calls' = Append(calls, <<"fit", "old_model", "X_train">>)
         ELSE UNCHANGED <<old_model, calls>>
    /\ pc' = "rf_search"
    /\ UNCHANGED <<fs, lib, err, out, X_train, X_test, y_train, y_test, train_acc, test_acc,
                   rf_grid_search, log_reg_grid_search, old_test_acc, new_test_acc>>

\* if not hasattr(old_model, "feature_importances_") and isinstance(...): fit
FitDefault ==
    /\ UNCHANGED other_notebooks
    /\ pc = "fit_default"
    /\ IF needs_fit(old_model)
         THEN \E f \in PredictFns :
                 /\ old_model' = fit(old_model, f)
                 /\ calls' = Append(calls, <<"fit", "old_model", "X_train">>)
         ELSE UNCHANGED <<old_model, calls>>
    /\ pc' = "baseline"
    /\ UNCHANGED <<fs, lib, err, out, X_train, X_test, y_train, y_test, train_acc, test_acc,
                   rf_grid_search, log_reg_grid_search, old_test_acc, new_test_acc>>

fitted_word(m) == IF IsFitted(m) THEN "fitted" ELSE "unfitted"

\* train_acc, test_acc = accuracy_score(..., old_model.predict(...)) and prints
Baseline ==
    /\ UNCHANGED other_notebooks
    /\ pc = "baseline"
    /\ LET p == predict(old_model, X_train)
           q == predict(old_model, X_test)
       IN  IF p.exc # "none"
             THEN /\ Abort(p.exc)
                  /\ calls' = Append(calls, <<"predict", "old_model", fitted_word(old_model)>>)
                  /\ UNCHANGED <<out, train_acc, test_acc>>
             ELSE /\ train_acc' = accuracy_score(y_train, p.val)
                  /\ test_acc' = accuracy_score(y_test, q.val)
                  /\ calls' = calls \o << <<"predict", "old_model", fitted_word(old_model)>>,
                                          <<"predict", "old_model", fitted_word(old_model)>> >>
                  /\ out' = out \o <<Say(old_model.cls), Report("Train accuracy", train_acc'),
                                     Report("Test accuracy", test_acc')>>
                  /\ pc' = "rf_search" /\ err' = err
    /\ UNCHANGED <<fs, lib, X_train, X_test, y_train, y_test, old_model,
                   rf_grid_search, log_reg_grid_search, old_test_acc, new_test_acc>>

\* the search handed the train and the test partition together
RfSearch_on_all_data ==
    /\ UNCHANGED other_notebooks
    /\ pc = "rf_search"
    /\ LET s == cross_validate(rf_candidates, cv, X_train \o X_test, y_train \o y_test, lib) IN
        \E f \in PredictFns :
          LET r == refit(s, RF, f)
          IN  IF r.exc # "none"
                THEN Abort(r.exc) /\ UNCHANGED <<out, rf_grid_search>>
                ELSE /\ rf_grid_search' = r
                     /\ out' = out \o <<Report("Best CV accuracy", r.best_score_)>>
                     /\ pc' = "lr_search" /\ err' = err
    /\ UNCHANGED <<fs, lib, calls, X_train, X_test, y_train, y_test, old_model, train_acc,
                   test_acc, log_reg_grid_search, old_test_acc, new_test_acc>>

\* rf_grid_search.fit(X_train, y_train) and prints
RfSearch ==
    /\ UNCHANGED other_notebooks
    /\ pc = "rf_search"
    /\ LET s == cross_validate(rf_candidates, cv, X_train, y_train, lib) IN
        \E f \in PredictFns :
          LET r == refit(s, RF, f)
          IN  IF r.exc # "none"
                THEN Abort(r.exc) /\ UNCHANGED <<out, rf_grid_search>>
                ELSE /\ rf_grid_search' = r
                     /\ out' = out \o <<Report("Best CV accuracy", r.best_score_)>>
                     /\ pc' = "lr_search" /\ err' = err
    /\ UNCHANGED <<fs, lib, calls, X_train, X_test, y_train, y_test, old_model, train_acc,
                   test_acc, log_reg_grid_search, old_test_acc, new_test_acc>>

\* log_reg_grid_search.fit(X_train, y_train) and prints
LogRegSearch ==
    /\ UNCHANGED other_notebooks
    /\ pc = "lr_search"
    /\ LET s == cross_validate(log_reg_candidates, cv, X_train, y_train, lib + 1) IN
        \E f \in PredictFns :
          LET r == refit(s, LR, f)
          IN  IF r.exc # "none"
                THEN Abort(r.exc) /\ UNCHANGED <<out, log_reg_grid_search>>
                ELSE /\ log_reg_grid_search' = r
                     /\ out' = out \o <<Report("LogReg best CV accuracy", r.best_score_)>>
                     /\ pc' = "compare" /\ err' = err
    /\ UNCHANGED <<fs, lib, calls, X_train, X_test, y_train, y_test, old_model, train_acc,
                   test_acc, rf_grid_search, old_test_acc, new_test_acc>>

\* Section 5: old_test_acc, new_test_acc and print(comparison_df)
Compare ==
    /\ UNCHANGED other_notebooks
    /\ pc = "compare"
    /\ LET p == predict(old_model, X_test)
           q == predict(rf_grid_search.best_estimator_, X_test)
       IN  IF p.exc # "none" \/ q.exc # "none"
             THEN /\ Abort(IF p.exc # "none" THEN p.exc ELSE q.exc)
                  /\ UNCHANGED <<out, calls, old_test_acc, new_test_acc>>
             ELSE /\ old_test_acc' = accuracy_score(y_test, p.val)
                  /\ new_test_acc' = accuracy_score(y_test, q.val)
                  /\ calls' = calls \o << <<"predict", "old_model", fitted_word(old_model)>>,
                                          <<"predict", "best_estimator_", "fitted">> >>
                  /\ out' = out \o <<Report("old_model", old_test_acc'),
                                     Report("tuned_model", new_test_acc')>>
                  /\ pc' = "decide" /\ err' = err
    /\ UNCHANGED <<fs, lib, X_train, X_test, y_train, y_test, old_model, train_acc,
                   test_acc, rf_grid_search, log_reg_grid_search>>

\* Section 6 saving the estimator of whichever search scored higher in
\* cross-validation
Decide_saves_best_search ==
    /\ UNCHANGED other_notebooks
    /\ pc = "decide"
    /\ IF as_good_or_better(new_test_acc, old_test_acc)
         THEN /\ out' = Append(out, Say(SaveMsg))
              /\ fs' = joblib_dump(fs,
                                   IF GE(rf_grid_search.best_score_, log_reg_grid_search.best_score_)
                                     THEN rf_grid_search.best_estimator_
                                     ELSE log_reg_grid_search.best_estimator_,
                                   best_model_path)
              /\ calls' = Append(calls, <<"dump", "best_estimator_", best_model_path>>)
         ELSE /\ out' = Append(out, Say(KeepMsg))
              /\ UNCHANGED <<fs, calls>>
    /\ pc' = "done"
    /\ UNCHANGED <<lib, err, memory>>

\* Section 6: if new_test_acc >= old_test_acc: dump, else keep
Decide ==
    /\ UNCHANGED other_notebooks
    /\ pc = "decide"
    /\ IF as_good_or_better(new_test_acc, old_test_acc)
         THEN /\ out' = Append(out, Say(SaveMsg))
              /\ fs' = joblib_dump(fs, rf_grid_search.best_estimator_, best_model_path)
              /\ calls' = Append(calls, <<"dump", "best_estimator_", best_model_path>>)
         ELSE /\ out' = Append(out, Say(KeepMsg))
              /\ UNCHANGED <<fs, calls>>
    /\ pc' = "done"
    /\ UNCHANGED <<lib, err, memory>>

\* the notebook is run again, from its first cell, on the store as it is now
RunAgain ==
    /\ UNCHANGED other_notebooks
    /\ pc \in {"done", "failed"}
    /\ pc' = "load_data"
    /\ err' = "none"
    /\ out' = <<>>
    /\ calls' = <<>>
    /\ X_train' = None /\ X_test' = None /\ y_train' = None /\ y_test' = None
    /\ old_model' = NoObject
    /\ train_acc' = NoAcc /\ test_acc' = NoAcc
    /\ rf_grid_search' = NoSearch /\ log_reg_grid_search' = NoSearch
    /\ old_test_acc' = NoAcc /\ new_test_acc' = NoAcc
    /\ UNCHANGED <<fs, lib>>

Next ==
    \/ LoadData
    \/ LoadModel
    \/ FitDefault
    \/ Baseline
    \/ RfSearch
    \/ LogRegSearch
    \/ Compare
    \/ Decide
    \/ RunAgain

Spec == Init /\ [][Next]_vars

\* the two resolver calls alone, from every store
NextResolvers ==
    \/ LoadData
    \/ LoadModel

SpecResolvers == InitResolvers /\ [][NextResolvers]_vars

\* other held-out partitions the previous lab may have saved next to the same
\* train partition
HeldOutSets ==
    {[X_test |-> StoredData.X_test, y_test |-> StoredData.y_test],
     [X_test |-> <<1, 0, 0>>, y_test |-> <<0, 1, 1>>],
     [X_test |-> <<0, 1>>, y_test |-> <<1, 1>>]}

HeldOutStores ==
    {[st EXCEPT ![X_test_path] = File(h.X_test), ![y_test_path] = File(h.y_test)] :
        st \in {r \in RunStores : r[X_train_path].kind = "ok"}, h \in HeldOutSets}

\* runs of the whole notebook that differ in the held-out partition only
InitHeldOut ==
    /\ Week3Closed /\ Week1Closed
    /\ fs \in HeldOutStores
    /\ lib \in 0..MaxLib
    /\ Fresh

SpecHeldOut == InitHeldOut /\ [][Next]_vars

\* train partitions of one, two, four and six samples
SmallTrainSets ==
    {[X_train |-> <<1>>, y_train |-> <<1>>],
     [X_train |-> <<0, 1>>, y_train |-> <<0, 1>>],
     [X_train |-> <<0, 1, 1, 0>>, y_train |-> <<0, 0, 1, 1>>],
     [X_train |-> StoredData.X_train, y_train |-> StoredData.y_train]}

SmallTrainStores ==
    {[st EXCEPT ![X_train_path] = File(h.X_train), ![y_train_path] = File(h.y_train)] :
        st \in {r \in RunStores : r[X_train_path].kind = "ok"}, h \in SmallTrainSets}

\* runs of the whole notebook on train partitions of every size
InitSmallTrain ==
    /\ Week3Closed /\ Week1Closed
    /\ fs \in SmallTrainStores
    /\ lib \in 0..MaxLib
    /\ Fresh

SpecSmallTrain == InitSmallTrain /\ [][Next]_vars

\* the stores on which a statement before Section 6 can raise: an unreadable
\* dataset file, a stored model that cannot predict, a train partition too
\* small for the folds; and the stores on which none does
FailingStores == RunStores \cup SmallTrainStores

InitFailures ==
    /\ Week3Closed /\ Week1Closed
    /\ fs \in FailingStores
    /\ lib \in 0..MaxLib
    /\ Fresh

SpecFailures == InitFailures /\ [][Next]_vars

----------------------------------------------------------------------------
(* week3/lab_3_3_automated_etl_instructor.py: one run, cell after cell *)

\* rows a relation named final_df may hold from earlier work in the session
stale_rows == <<Row("CUST-900", "DEV-900", "step", "step")>>

\* rows an earlier run may have left in the curated table
old_rows == <<Row("CUST-000", "DEV-000", "walk", "device")>>

\* what the three raw tables may hold once the placeholder names are replaced
\* by names that resolve
RawTables ==
    {[device |-> <<[sensor_reading_time |-> 1, device_id |-> "DEV-201", heart_rate |-> Value(120)],
                   [sensor_reading_time |-> 2, device_id |-> "DEV-202", heart_rate |-> NullInt]>>,
      step |-> <<[sensor_reading_time |-> 1, serial_number |-> "S1"],
                 [sensor_reading_time |-> 2, serial_number |-> "S2"]>>,
      demo |-> <<[serial_number |-> "S1", customer |-> "CUST-101"],
                 [serial_number |-> "S2", customer |-> "CUST-102"]>>],
     [device |-> <<[sensor_reading_time |-> 5, device_id |-> "DEV-301", heart_rate |-> Value(100)],
                   [sensor_reading_time |-> 6, device_id |-> "DEV-302", heart_rate |-> Value(101)]>>,
      step |-> <<[sensor_reading_time |-> 5, serial_number |-> "S5"],
                 [sensor_reading_time |-> 6, serial_number |-> "S6"]>>,
      demo |-> <<[serial_number |-> "S5", customer |-> "CUST-301"],
                 [serial_number |-> "S6", customer |-> "CUST-302"]>>]}

\* the sessions a run may start in
Catalogs ==
    {[n \in RelationNames |->
         CASE n = final_df_name -> f
           [] n = labeled_step_test -> t
           [] n = raw_device_message -> (IF raw = <<>> THEN NoRelation ELSE Table(raw[1].device))
           [] n = raw_step_trainer -> (IF raw = <<>> THEN NoRelation ELSE Table(raw[1].step))
           [] OTHER -> (IF raw = <<>> THEN NoRelation ELSE Table(raw[1].demo))] :
        f \in {NoRelation, TempView(stale_rows), Table(stale_rows), TempView(sample_data)},
        t \in {NoRelation, Table(old_rows), Table(sample_data)},
        raw \in {<<>>} \cup {<<r>> : r \in RawTables}}

\* the refinement lab is not running
Week5Closed ==
    /\ fs = [p \in StorePaths |->
                IF p \in Range(DataPaths) THEN Absent ELSE AbsentPickle]
    /\ lib = 0
    /\ Fresh

InitEtl ==
    /\ Week5Closed /\ Week1Closed
    /\ catalog \in Catalogs
    /\ final_df = <<>>
    /\ etl_pc = "setup"
    /\ etl_err = "none"
    /\ sql_log = <<>>
    /\ validation = NoValidation

EtlAbort(e) == etl_pc' = "failed" /\ etl_err' = e

\* final_df = spark.createDataFrame(sample_data, [...]); final_df.show()
Setup ==
    /\ etl_pc = "setup"
    /\ final_df' = sample_data
    /\ etl_pc' = "write_demo"
    /\ UNCHANGED <<week5_vars, week1_vars, catalog, etl_err, sql_log, validation>>

\* %sql CREATE OR REPLACE TABLE labeled_step_test AS SELECT * FROM final_df
WriteDemo ==
    /\ etl_pc = "write_demo"
    /\ LET r == create_or_replace_table_as_select(catalog, labeled_step_test, final_df_name)
       IN  IF r.exc # "none"
             THEN EtlAbort(r.exc) /\ UNCHANGED <<catalog, sql_log>>
             ELSE /\ catalog' = r.val
                  /\ sql_log' = Append(sql_log, labeled_step_test)
                  /\ etl_pc' = "validate" /\ etl_err' = etl_err
    /\ UNCHANGED <<week5_vars, week1_vars, final_df, validation>>

\* the four validation queries on labeled_step_test
Validate ==
    /\ etl_pc = "validate"
    /\ LET r == spark_table(catalog, labeled_step_test)
       IN  IF r.exc # "none"
             THEN EtlAbort(r.exc) /\ validation' = validation
             ELSE /\ validation' =
                        [step_counts |-> group_count(r.val, "step_label"),
                         bad_steps |-> invalid_rows(r.val, "step_label", {"step", "no_step"}),
                         source_counts |-> group_count(r.val, "source_label"),
                         bad_sources |-> invalid_rows(r.val, "source_label", {"device", "step"})]
                  /\ etl_pc' = "template" /\ etl_err' = etl_err
    /\ UNCHANGED <<week5_vars, week1_vars, catalog, final_df, sql_log>>

\* the template cell: load the raw tables, join, label, select, and register
\* the result as the temporary view final_df
Template ==
    /\ etl_pc = "template"
    /\ LET df_device == spark_table(catalog, raw_device_message)
           df_step == spark_table(catalog, raw_step_trainer)
           df_demo == spark_table(catalog, raw_demographics)
       IN  IF df_device.exc # "none" \/ df_step.exc # "none" \/ df_demo.exc # "none"
             THEN EtlAbort("AnalysisException") /\ UNCHANGED <<catalog, final_df>>
             ELSE /\ final_df' = transform(df_device.val, df_step.val, df_demo.val)
                  /\ catalog' = createOrReplaceTempView(catalog, final_df', final_df_name)
                  /\ etl_pc' = "write_final" /\ etl_err' = etl_err
    /\ UNCHANGED <<week5_vars, week1_vars, sql_log, validation>>

\* %sql CREATE OR REPLACE TABLE labeled_step_test AS SELECT * FROM final_df
WriteFinal ==
    /\ etl_pc = "write_final"
    /\ LET r == create_or_replace_table_as_select(catalog, labeled_step_test, final_df_name)
       IN  IF r.exc # "none"
             THEN EtlAbort(r.exc) /\ UNCHANGED <<catalog, sql_log>>
             ELSE /\ catalog' = r.val
                  /\ sql_log' = Append(sql_log, labeled_step_test)
                  /\ etl_pc' = "done" /\ etl_err' = etl_err
    /\ UNCHANGED <<week5_vars, week1_vars, final_df, validation>>

\* the notebook is run again in the same session: its variables and the
\* session's relations are as the last run left them
EtlRunAgain ==
    /\ etl_pc \in {"done", "failed"}
    /\ etl_pc' = "setup"
    /\ etl_err' = "none"
    /\ sql_log' = <<>>
    /\ validation' = NoValidation
    /\ UNCHANGED <<week5_vars, week1_vars, catalog, final_df>>

NextEtl ==
    \/ Setup
    \/ WriteDemo
    \/ Validate
    \/ Template
    \/ WriteFinal
    \/ EtlRunAgain

SpecEtl == InitEtl /\ [][NextEtl]_vars

----------------------------------------------------------------------------
(* week1/data_wrangling_pandas.py: the walkthrough, taught cell by cell. The *)
(* instructor runs one cell at a time and may run any cell whose frames are  *)
(* loaded; a cell that raises ends with its exception and the session goes   *)
(* on. The cells modelled are those that make or use the merge keys.         *)

MenuFiles ==
    {<<MenuRow("101", "asian", "5"), MenuRow("102", " Asian ", "7")>>,
     <<MenuRow("101", "asian", "5"), MenuRow("101", "Asian", "5"), MenuRow("102", NaN, "7")>>,
     <<MenuRow("101", "asian", NaN), MenuRow("101", "ASIAN", "6")>>,
     <<MenuRow(NaN, "asian", "5"), MenuRow(NaN, "unknown", "6"), MenuRow("103", NaN, NaN)>>}

OrderFiles ==
    {<<OrderRow("1", "101"), OrderRow("1", "102"), OrderRow("2", "101")>>,
     <<OrderRow("101", "102")>>,
     <<OrderRow("1", "103"), OrderRow("2", NaN)>>}

Volumes == {[menu_items |-> m, order_details |-> o] : m \in MenuFiles, o \in OrderFiles}

InitWrangle ==
    /\ Week5Closed /\ Week3Closed
    /\ volume \in Volumes
    /\ menu_df = NotLoaded /\ order_df = NotLoaded
    /\ merged_df = NotLoaded /\ bad_merge = NotLoaded
    /\ last_cell = "none"
    /\ cell_err = "none"
    /\ cell_out = <<>>

\* the load cell has run
Loaded == last_cell # "none"

\* menu_df = pd.read_csv(menu_path); order_df = pd.read_csv(order_path); prints
LoadCsv ==
    /\ menu_df' = volume.menu_items
    /\ order_df' = volume.order_details
    /\ last_cell' = "load" /\ cell_err' = "none"
    /\ cell_out' = <<<<"Loaded menu_df with shape:", Len(menu_df'), 0>>,
                     <<"Loaded order_df with shape:", Len(order_df'), 0>>>>
    /\ UNCHANGED <<week5_vars, week3_vars, volume, merged_df, bad_merge>>

\* the cleaning cell on category and price
CleanMenu ==
    /\ Loaded
    /\ menu_df' = clean_menu(menu_df)
    /\ last_cell' = "clean" /\ cell_err' = "none" /\ cell_out' = <<>>
    /\ UNCHANGED <<week5_vars, week3_vars, volume, order_df, merged_df, bad_merge>>

\* menu_df = menu_df.drop_duplicates(subset=["menu_item_id"]) and the print
DropDuplicates ==
    /\ Loaded
    /\ menu_df' = drop_duplicates(menu_df, "menu_item_id")
    /\ last_cell' = "drop_duplicates" /\ cell_err' = "none"
    /\ cell_out' = <<<<"Removed duplicate menu rows", Len(menu_df) - Len(menu_df'), 0>>>>
    /\ UNCHANGED <<week5_vars, week3_vars, volume, order_df, merged_df, bad_merge>>

\* merged_df = order_df.merge(menu_df, how="left", left_on="item_id",
\*                            right_on="menu_item_id", validate="many_to_one")
CorrectMerge ==
    /\ Loaded
    /\ LET r == merge(order_df, menu_df, "item_id", "menu_item_id")
       IN  IF r.exc # "none"
             THEN cell_err' = r.exc /\ merged_df' = merged_df
             ELSE cell_err' = "none" /\ merged_df' = r.val
    /\ last_cell' = "merge" /\ cell_out' = <<>>
    /\ UNCHANGED <<week5_vars, week3_vars, volume, menu_df, order_df, bad_merge>>

\* try: bad_merge = order_df.merge(menu_df, left_on="order_id", ...)
\* except Exception as e: print("Bad merge error:", e)
BadMerge ==
    /\ Loaded
    /\ LET r == merge(order_df, menu_df, "order_id", "menu_item_id")
       IN  IF r.exc = "none"
             THEN bad_merge' = r.val /\ cell_err' = "none" /\ cell_out' = <<>>
           ELSE IF IsException(r.exc)
             THEN bad_merge' = bad_merge /\ cell_err' = "none"
                  /\ cell_out' = <<Say(BadMergeMsg)>>
           ELSE bad_merge' = bad_merge /\ cell_err' = r.exc /\ cell_out' = <<>>
    /\ last_cell' = "bad_merge"
    /\ UNCHANGED <<week5_vars, week3_vars, volume, menu_df, order_df, merged_df>>

NextWrangle ==
    \/ LoadCsv
    \/ CleanMenu
    \/ DropDuplicates
    \/ CorrectMerge
    \/ BadMerge

SpecWrangle == InitWrangle /\ [][NextWrangle]_vars

----------------------------------------------------------------------------
(* What a state shows of the run *)

Printed(msg) == \E i \in DOMAIN out : out[i] = Say(msg)
Called(c) == \E i \in DOMAIN calls : calls[i] = c

DumpCall == <<"dump", "best_estimator_", best_model_path>>
FitCall == <<"fit", "old_model", "X_train">>

Kind(p) == fs[p].kind

\* the position in load order of the first dataset file that does not load,
\* 0 when all four load
FirstBad ==
    IF \A k \in 1..4 : Kind(DataPaths[k]) = "ok" THEN 0
    ELSE CHOOSE k \in 1..4 :
            /\ Kind(DataPaths[k]) # "ok"
            /\ \A j \in 1..(k - 1) : Kind(DataPaths[j]) = "ok"

\* the number of test samples a fitted model classifies correctly
TestCorrect(m) == Cardinality({i \in 1..Len(y_test) : m.estimators_[X_test[i] + 1] = y_test[i]})

AfterLoadData == pc \in {"load_model", "fit_default"} \/ (pc = "failed" /\ old_model = NoObject)
AfterFitDefault == pc \in {"baseline", "rf_search", "lr_search", "compare", "decide"}

\* what safe_load_model resolved in this run, while the store is as the run found it
Resolved == IF Kind(best_model_path) = "ok" THEN fs[best_model_path].data ELSE DefaultModel

----------------------------------------------------------------------------
(* C1 *)

\* C1: at the end of a run the candidate has been dumped to the best-model
\* path if and only if it classifies at least as many test samples correctly
\* as the incumbent; when it was dumped, the path holds it.
C1_SaveIffAsGood ==
    pc = "done" =>
        /\ Called(DumpCall) <=>
              TestCorrect(rf_grid_search.best_estimator_) >= TestCorrect(old_model)
        /\ Called(DumpCall) => fs[best_model_path] = File(rf_grid_search.best_estimator_)

\* a run that ended with equal test accuracies, and the write happened
C1_Witness ==
    /\ pc = "done"
    /\ TestCorrect(rf_grid_search.best_estimator_) = TestCorrect(old_model)
    /\ Called(DumpCall)

----------------------------------------------------------------------------
(* C2 *)

CanScore(file) == file.kind = "ok" /\ IsFitted(file.data)

\* C2: a step either leaves the best-model file as it was or, when the file
\* held a fitted model, replaces it by a model that classifies at least as
\* many samples of the run's test partition correctly.
C2_NeverRegresses ==
    [][\/ fs'[best_model_path] = fs[best_model_path]
       \/ CanScore(fs[best_model_path]) =>
            /\ CanScore(fs'[best_model_path])
            /\ TestCorrect(fs'[best_model_path].data) >= TestCorrect(fs[best_model_path].data)]_vars

\* a stored, fitted model has been replaced by a strictly better candidate
C2_Witness ==
    /\ pc = "done"
    /\ Called(DumpCall)
    /\ Printed(LoadedModelMsg)
    /\ IsFitted(old_model)
    /\ fs[best_model_path].data # old_model
    /\ TestCorrect(fs[best_model_path].data) > TestCorrect(old_model)

----------------------------------------------------------------------------
(* C3 *)

\* C3 as claimed: a run in which the best cross-validation score equals the
\* incumbent's test accuracy ends with the candidate saved.
C3_CvTieSaves ==
    (pc = "done" /\ EQ(rf_grid_search.best_score_, old_test_acc)) => Called(DumpCall)

\* C3: a run in which the candidate's test accuracy equals the incumbent's
\* test accuracy ends with the decision "save": the save message is printed,
\* the keep message is not, and the candidate is in the best-model file.
C3_TestTieSaves ==
    (pc = "done" /\ new_test_acc = old_test_acc) =>
        /\ Printed(SaveMsg) /\ ~Printed(KeepMsg)
        /\ fs[best_model_path] = File(rf_grid_search.best_estimator_)

\* a tie of the test accuracies, saved, where the best CV score is another number
C3_Witness ==
    /\ pc = "done"
    /\ new_test_acc = old_test_acc
    /\ ~EQ(rf_grid_search.best_score_, old_test_acc)
    /\ Printed(SaveMsg)

----------------------------------------------------------------------------
(* C4 *)

\* C4: when safe_load_model has printed its fallback message and returned,
\* the model file is missing: a file that is present but does not unpickle
\* never leads to the default.
C4_OnlyNotFoundFallsBack ==
    (pc = "fit_default" /\ Printed(FallbackModelMsg)) => Kind(best_model_path) = "absent"

----------------------------------------------------------------------------
(* C5 *)

\* C5 as claimed: once load_or_create_demo_data has run on a store in which
\* one of the four dataset files is present but unreadable, it has raised and
\* has not returned the synthetic dataset.
C5_AnyMalformedRaises ==
    (AfterLoadData /\ \E k \in 1..4 : Kind(DataPaths[k]) = "malformed") =>
        pc = "failed" /\ ~Printed(FallbackDataMsg)

\* C5: load_or_create_demo_data raises, and returns nothing, whenever the
\* first dataset file in load order that does not load is present but
\* unreadable; it falls back to the synthetic dataset only when that first
\* file is missing (later files are then not read).
C5_FirstMalformedRaises ==
    AfterLoadData =>
        /\ (FirstBad # 0 /\ Kind(DataPaths[FirstBad]) = "malformed") =>
              /\ pc = "failed" /\ err = (IF FirstBad <= 2 THEN "ValueError" ELSE "UnpicklingError")
              /\ ~Printed(FallbackDataMsg) /\ ~Printed(LoadedDataMsg)
              /\ <<X_train, X_test, y_train, y_test>> = <<None, None, None, None>>
        /\ Printed(FallbackDataMsg) =>
              (FirstBad # 0 /\ Kind(DataPaths[FirstBad]) = "absent")

\* the resolver raised on an unreadable file although a later file is missing
C5_Witness ==
    /\ pc = "failed"
    /\ FirstBad # 0 /\ FirstBad < 4
    /\ Kind(DataPaths[FirstBad]) = "malformed"
    /\ \E k \in (FirstBad + 1)..4 : Kind(DataPaths[k]) = "absent"

----------------------------------------------------------------------------
(* C6 *)

\* C6 as claimed: once a resolver has run on a store in which a file it
\* requires is missing, it has returned the synthetic dataset (the default
\* model), printed its fallback message and not raised.
C6_AnyAbsentFallsBack ==
    /\ (AfterLoadData /\ \E k \in 1..4 : Kind(DataPaths[k]) = "absent") =>
          /\ pc # "failed" /\ Printed(FallbackDataMsg)
          /\ <<X_train, X_test, y_train, y_test>> = SyntheticData[lib]
    /\ (pc = "fit_default" /\ Kind(best_model_path) = "absent") =>
          old_model = DefaultModel /\ Printed(FallbackModelMsg)

\* C6: when the first dataset file in load order that does not load is
\* missing, load_or_create_demo_data returns the synthetic dataset, prints
\* its fallback message and does not raise; when the model file is missing,
\* safe_load_model returns the default model, prints its fallback message
\* and does not raise.
C6_FirstAbsentFallsBack ==
    /\ (AfterLoadData /\ FirstBad # 0 /\ Kind(DataPaths[FirstBad]) = "absent") =>
          /\ pc # "failed" /\ err = "none"
          /\ Printed(FallbackDataMsg) /\ ~Printed(LoadedDataMsg)
          /\ <<X_train, X_test, y_train, y_test>> = SyntheticData[lib]
    /\ (pc = "fit_default" /\ Kind(best_model_path) = "absent") =>
          /\ old_model = DefaultModel /\ err = "none"
          /\ Printed(FallbackModelMsg) /\ ~Printed(LoadedModelMsg)

\* both resolvers fell back: a dataset file missing after files that load, and
\* no model file
C6_Witness ==
    /\ pc = "fit_default"
    /\ FirstBad > 1 /\ Kind(DataPaths[FirstBad]) = "absent"
    /\ Kind(best_model_path) = "absent"
    /\ old_model = DefaultModel
    /\ Len(X_train) = n_samples - n_test_of(n_samples)

----------------------------------------------------------------------------
(* C7 *)

\* C7: when the four dataset files all load, load_or_create_demo_data returns
\* their contents and prints the loaded message, not the fallback one; when
\* the model file loads, safe_load_model returns its content and prints the
\* loaded message, not the fallback one.
C7_LoadedUnmodified ==
    /\ (AfterLoadData /\ FirstBad = 0) =>
          /\ pc # "failed"
          /\ X_train = fs[X_train_path].data /\ X_test = fs[X_test_path].data
          /\ y_train = fs[y_train_path].data /\ y_test = fs[y_test_path].data
          /\ Printed(LoadedDataMsg) /\ ~Printed(FallbackDataMsg)
    /\ (pc = "fit_default" /\ Kind(best_model_path) = "ok") =>
          /\ old_model = fs[best_model_path].data
          /\ Printed(LoadedModelMsg) /\ ~Printed(FallbackModelMsg)

\* both resolvers loaded what the store holds
C7_Witness ==
    /\ pc = "fit_default"
    /\ FirstBad = 0
    /\ Kind(best_model_path) = "ok"
    /\ old_model = fs[best_model_path].data
    /\ y_train = StoredData.y_train

----------------------------------------------------------------------------
(* C8 *)

PredictOn(who, state) == <<"predict", who, state>>

\* C8 as claimed: no run calls predict on a model that is not fitted.
C8_NeverPredictUnfitted ==
    \A i \in DOMAIN calls : calls[i][1] = "predict" => calls[i][3] = "fitted"

\* C8: when the resolved incumbent is the default (or any other forest that
\* is not fitted), fit is called on it before the first predict, and no
\* predict is ever called on an unfitted RandomForestClassifier; predict is
\* called on an unfitted incumbent only when a loaded model of another class
\* is not fitted, and that call ends the run with NotFittedError.
C8_DefaultFittedFirst ==
    /\ (Printed(FallbackModelMsg) /\ (AfterFitDefault \/ pc = "done")) =>
          /\ \E i \in DOMAIN calls : calls[i] = FitCall /\ \A j \in 1..(i - 1) : calls[j][1] # "predict"
          /\ IsFitted(old_model)
    /\ \A i \in DOMAIN calls :
          calls[i] = PredictOn("old_model", "unfitted") =>
             /\ old_model.cls # RF /\ Printed(LoadedModelMsg)
             /\ pc = "failed" /\ err = "NotFittedError" /\ i = Len(calls)
    /\ (pc = "rf_search" /\ old_model.cls = RF) =>
          /\ IsFitted(old_model)
          /\ Called(PredictOn("old_model", "fitted"))

\* the default was resolved, fitted, and then evaluated
C8_Witness ==
    /\ pc = "rf_search"
    /\ Printed(FallbackModelMsg)
    /\ calls = <<FitCall, PredictOn("old_model", "fitted"), PredictOn("old_model", "fitted")>>
    /\ test_acc # NoAcc

----------------------------------------------------------------------------
(* C9 *)

\* C9 as claimed: fit is called on the incumbent only when the incumbent is
\* the fallback default, never on an object loaded from the best-model file.
C9_LoadedNeverFitted ==
    Called(FitCall) => Printed(FallbackModelMsg)

\* C9: fit is called on the incumbent exactly when the resolved object is a
\* RandomForestClassifier that is not fitted, be it the fallback default or a
\* loaded one; every other loaded object (fitted, or of another class) is
\* left exactly as it was loaded.
C9_FitOnlyUnfittedForest ==
    (AfterFitDefault \/ (pc = "failed" /\ err = "NotFittedError")) =>
        /\ Called(FitCall) <=> (Resolved.cls = RF /\ ~IsFitted(Resolved))
        /\ ~Called(FitCall) => old_model = Resolved
        /\ (Printed(LoadedModelMsg) /\ IsFitted(Resolved)) => old_model = fs[best_model_path].data

\* a loaded, fitted model went through the fit-if-default statement untouched
C9_Witness ==
    /\ pc = "baseline"
    /\ Printed(LoadedModelMsg)
    /\ IsFitted(fs[best_model_path].data)
    /\ old_model = fs[best_model_path].data
    /\ calls = <<>>

----------------------------------------------------------------------------
(* C10 *)

RfProduct == {<<d, l, n>> : d \in {0, 10, 20}, l \in {1, 2, 4}, n \in {100, 200}}
LogRegProduct == {<<c, "l2", "lbfgs">> : c \in {1, 10, 50, 100}}

Searched(search, product, count) ==
    /\ Len(search.params) = count
    /\ Range(search.params) = product
    /\ Len(search.mean_test_score) = count
    /\ \A i \in 1..count :
          /\ Len(search.split_test_score[i]) = 3
          /\ GE(search.best_score_, search.mean_test_score[i])
    /\ \E i \in 1..count : search.best_score_ = search.mean_test_score[i]

\* C10: a finished random-forest search has scored the 18 combinations of its
\* grid, a finished logistic-regression search the 4 of its grid, each on 3
\* folds, and the best score is one of the mean scores and at least every
\* mean score.
C10_ExhaustiveAndBest ==
    /\ pc \in {"lr_search", "compare", "decide", "done"} =>
          Searched(rf_grid_search, RfProduct, 18)
    /\ pc \in {"compare", "decide", "done"} =>
          Searched(log_reg_grid_search, LogRegProduct, 4)

\* both searches are done, and the best random-forest combination is neither
\* the first nor scored like the first
C10_Witness ==
    /\ pc = "compare"
    /\ rf_grid_search.best_index_ > 1
    /\ ~GE(rf_grid_search.mean_test_score[1], rf_grid_search.best_score_)
    /\ log_reg_grid_search.best_index_ > 1

----------------------------------------------------------------------------
(* C11 *)

\* what the random-forest search returns on the stored train partition, before
\* the refit, for each generator
TrainOnlySearch ==
    [g \in 0..MaxLib |->
        cross_validate(rf_candidates, cv, StoredData.X_train, StoredData.y_train, g)]

----------------------------------------------------------------------------
(* C12 *)

\* C12: a run whose train partition has fewer samples than cv folds never gets
\* past the random-forest search: once the baseline is evaluated the run is at
\* the search or has failed there with the search's ValueError, no search has
\* a result, nothing of a search is printed and nothing is saved.
C12_TooFewSamplesAborts ==
    (Len(y_train) < cv /\ train_acc # NoAcc) =>
        /\ pc \in {"rf_search", "failed"}
        /\ pc = "failed" => err = "ValueError"
        /\ rf_grid_search = NoSearch /\ log_reg_grid_search = NoSearch
        /\ \A i \in DOMAIN out : out[i][1] \notin {"Best CV accuracy", "LogReg best CV accuracy"}
        /\ ~Called(DumpCall) /\ ~Printed(SaveMsg) /\ ~Printed(KeepMsg)

\* the search raised on a train partition of two samples
C12_Witness ==
    /\ pc = "failed" /\ err = "ValueError"
    /\ Len(y_train) = 2
    /\ train_acc # NoAcc
    /\ rf_grid_search = NoSearch

----------------------------------------------------------------------------
(* C13 *)

\* the synthetic samples before the split, and the indices of the split, for
\* each generator
SyntheticXy == [g \in 0..MaxLib |-> make_classification(n_samples, default_random_state, g)]
SyntheticSplit ==
    [g \in 0..MaxLib |-> split_indices(SyntheticXy[g][2], default_random_state, g)]

CountOf(c, y) == Cardinality({i \in DOMAIN y : y[i] = c})

\* |a - b| <= d
Within(a, b, d) == a - b <= d /\ b - a <= d

----------------------------------------------------------------------------
(* C14 *)

----------------------------------------------------------------------------
(* C15 *)

CountOut(line) == Cardinality({i \in DOMAIN out : out[i] = line})

\* load_or_create_demo_data has returned in this run
DataResolved == pc # "load_data" /\ y_train # None

\* safe_load_model has returned in this run
ModelResolved == DataResolved /\ pc # "load_model"

\* C15: a call of load_or_create_demo_data that returned has printed exactly
\* one of its two messages, the loaded one when the arrays are those of the
\* files and the fallback one when they are the synthetic ones; a call of
\* safe_load_model has printed exactly one of its two messages, the loaded
\* one when it returned the file's object and the fallback one when it
\* returned the default; a call that raised has printed nothing and the run
\* has ended with its exception; a finished run has printed both test
\* accuracies once and exactly one decision message, the save message exactly
\* when the candidate was dumped to the best-model path.
C15_EverythingReported ==
    /\ DataResolved =>
          /\ CountOut(Say(LoadedDataMsg)) + CountOut(Say(FallbackDataMsg)) = 1
          /\ Printed(LoadedDataMsg) =>
                <<X_train, X_test, y_train, y_test>> =
                   <<fs[X_train_path].data, fs[X_test_path].data,
                     fs[y_train_path].data, fs[y_test_path].data>>
          /\ Printed(FallbackDataMsg) =>
                /\ <<X_train, X_test, y_train, y_test>> = SyntheticData[lib]
                /\ Kind(X_train_path) = "absent"
    /\ (pc = "failed" /\ ~DataResolved) => (out = <<>> /\ err # "none")
    /\ ModelResolved =>
          CountOut(Say(LoadedModelMsg)) + CountOut(Say(FallbackModelMsg)) = 1
    /\ (pc = "fit_default" /\ Printed(LoadedModelMsg)) =>
          (Kind(best_model_path) = "ok" /\ old_model = fs[best_model_path].data)
    /\ (pc = "fit_default" /\ Printed(FallbackModelMsg)) =>
          (Kind(best_model_path) # "ok" /\ old_model = DefaultModel)
    /\ pc = "decide" => ~Printed(SaveMsg) /\ ~Printed(KeepMsg) /\ ~Called(DumpCall)
    /\ pc = "done" =>
          /\ CountOut(Report("old_model", old_test_acc)) = 1
          /\ CountOut(Report("tuned_model", new_test_acc)) = 1
          /\ old_test_acc = accuracy_score(y_test, predict(old_model, X_test).val)
          /\ new_test_acc =
                accuracy_score(y_test, predict(rf_grid_search.best_estimator_, X_test).val)
          /\ CountOut(Say(SaveMsg)) + CountOut(Say(KeepMsg)) = 1
          /\ Printed(SaveMsg) <=> Called(DumpCall)
          /\ Printed(SaveMsg) => fs[best_model_path] = File(rf_grid_search.best_estimator_)
          /\ Printed(KeepMsg) => fs[best_model_path] # File(rf_grid_search.best_estimator_)

\* a finished run that reported a data fallback, a loaded model and the
\* decision to keep it
C15_Witness ==
    /\ pc = "done"
    /\ Printed(FallbackDataMsg) /\ Printed(LoadedModelMsg) /\ Printed(KeepMsg)
    /\ ~Called(DumpCall)
    /\ old_model = fs[best_model_path].data

----------------------------------------------------------------------------
(* C16 *)

\* C16: from the first CREATE OR REPLACE TABLE step of a run to the template
\* cell, and at the end of the run, the table labeled_step_test holds exactly
\* the rows of the DataFrame final_df.
C16_TableIsFinalDf ==
    etl_pc \in {"validate", "template", "done"} =>
        /\ catalog[labeled_step_test].kind = "table"
        /\ catalog[labeled_step_test].rows = final_df

----------------------------------------------------------------------------
(* C17 *)

\* C17: a merge cell that ran on a menu frame whose keys are not unique - the
\* merge raised its many-to-one validation error - has ended with that error:
\* the cell did not catch it and printed nothing in its place.
C17_MergeErrorSurfaces ==
    (last_cell \in {"merge", "bad_merge"} /\ ~is_unique(menu_df, "menu_item_id")) =>
        /\ cell_err = "MergeError"
        /\ cell_out = <<>>

----------------------------------------------------------------------------
(* C18 *)

\* the order of the statements of a run, and the statements that can raise
StepOrder ==
    {<<"load_data", "load_model">>, <<"load_model", "fit_default">>,
     <<"fit_default", "baseline">>, <<"baseline", "rf_search">>,
     <<"rf_search", "lr_search">>, <<"lr_search", "compare">>,
     <<"compare", "decide">>, <<"decide", "done">>}

MayRaise == {"load_data", "baseline", "rf_search", "lr_search", "compare"}

DumpCount == Cardinality({i \in DOMAIN calls : calls[i] = DumpCall})

\* C18: every step of a run moves from one statement to the next one of the
\* fixed order (or ends the run with an exception, or starts the next run
\* once this one has ended); when a statement is reached, what the statements
\* before it assign is assigned and what it and the later ones assign is not
\* yet; the best-model file changes only in the decision step, after both
\* accuracies of the comparison are computed, and is dumped at most once in a
\* run.
C18_FixedOrder ==
    [][/\ \/ <<pc, pc'>> \in StepOrder
          \/ pc \in MayRaise /\ pc' = "failed"
          \/ pc \in {"done", "failed"} /\ pc' = "load_data"
       /\ pc' = "load_data" => (y_train' = None /\ old_model' = NoObject)
       /\ pc' = "load_model" => (y_train' # None /\ old_model' = NoObject)
       /\ pc' = "fit_default" => (old_model' # NoObject /\ calls' = <<>>)
       /\ pc' = "baseline" => (train_acc' = NoAcc /\ test_acc' = NoAcc)
       /\ pc' = "rf_search" =>
             (train_acc' # NoAcc /\ test_acc' # NoAcc /\ rf_grid_search' = NoSearch)
       /\ pc' = "lr_search" =>
             (rf_grid_search' # NoSearch /\ log_reg_grid_search' = NoSearch)
       /\ pc' = "compare" =>
             (log_reg_grid_search' # NoSearch /\ old_test_acc' = NoAcc /\ new_test_acc' = NoAcc)
       /\ pc' = "decide" =>
             (old_test_acc' # NoAcc /\ new_test_acc' # NoAcc /\ DumpCount' = 0)
       /\ fs' # fs =>
             /\ pc = "decide" /\ pc' = "done"
             /\ old_test_acc # NoAcc /\ new_test_acc # NoAcc
             /\ DumpCount = 0 /\ DumpCount' = 1
             /\ \A p \in Range(DataPaths) : fs'[p] = fs[p]
       /\ DumpCount' <= 1]_vars

\* a run that went through every statement, fitted the default and saved
C18_Witness ==
    /\ pc = "done"
    /\ calls = <<FitCall, PredictOn("old_model", "fitted"), PredictOn("old_model", "fitted"),
                 PredictOn("old_model", "fitted"), PredictOn("best_estimator_", "fitted"),
                 DumpCall>>
    /\ rf_grid_search # NoSearch /\ log_reg_grid_search # NoSearch

----------------------------------------------------------------------------
(* C19 *)

\* C19: a run of the notebook that reached its end has overwritten the table
\* labeled_step_test exactly once.
C19_OverwriteExactlyOnce ==
    etl_pc = "done" =>
        Cardinality({i \in DOMAIN sql_log : sql_log[i] = labeled_step_test}) = 1

----------------------------------------------------------------------------
(* C20 *)

Arrays == <<X_train, X_test, y_train, y_test>>

StoredArrays == [i \in 1..4 |-> fs[DataPaths[i]].data]

AllPresent == \A i \in 1..4 : fs[DataPaths[i]].kind = "ok"

\* C20: once load_or_create_demo_data has returned, the four arrays are the
\* contents of the four files when all four are there, and the four arrays of
\* the synthetic split otherwise: none of them is a loaded array beside a
\* synthetic one, whichever of the files are present.  When every file is
\* either present or missing the call returns; a call that raised has
\* assigned none of the four.
C20_AllOrNothing ==
    /\ Arrays # <<None, None, None, None>> =>
          /\ \A i \in 1..4 : Arrays[i] # None
          /\ \/ AllPresent /\ Arrays = StoredArrays
             \/ ~AllPresent /\ Arrays = SyntheticData[lib]
    /\ (pc # "load_data" /\ \A i \in 1..4 : fs[DataPaths[i]].kind \in {"ok", "absent"}) =>
          Arrays # <<None, None, None, None>>
    /\ (pc = "failed" /\ Arrays = <<None, None, None, None>>) =>
          \E i \in 1..4 : fs[DataPaths[i]].kind = "malformed"

\* the first three files were loaded before the fourth was found missing, and
\* none of what was loaded is returned
C20_Witness ==
    /\ pc = "load_model"
    /\ \A i \in 1..3 : fs[DataPaths[i]].kind = "ok"
    /\ fs[y_test_path].kind = "absent"
    /\ Arrays = SyntheticData[lib]
    /\ \A i \in 1..4 : Arrays[i] # StoredData[<<"X_train", "X_test", "y_train", "y_test">>[i]]

----------------------------------------------------------------------------
(* C21 *)

\* C21: no step of a run changes a file other than stedi_best_model.pkl: the
\* four dataset files and the feature-pipeline file keep their content, and
\* no location is created or removed.  The store changes only in the decision
\* step on the save branch, and what is then written is the forest search's
\* best estimator, an estimator object and nothing else (no accuracy is part
\* of it); on the keep branch the decision step leaves the whole store as it
\* was.
C21_OnlyBestModelWritten ==
    [][/\ DOMAIN fs' = StorePaths
       /\ \A p \in StorePaths \ {best_model_path} : fs'[p] = fs[p]
       /\ fs' # fs =>
             /\ pc = "decide"
             /\ as_good_or_better(new_test_acc, old_test_acc)
             /\ fs'[best_model_path] = File(rf_grid_search.best_estimator_)
             /\ DOMAIN fs'[best_model_path].data = {"cls", "combo", "estimators_"}
       /\ (pc = "decide" /\ ~as_good_or_better(new_test_acc, old_test_acc)) => fs' = fs]_vars

\* a run that saved, in a folder that holds the four arrays and the pipeline
C21_Witness ==
    /\ pc = "done"
    /\ Called(DumpCall)
    /\ \A i \in 1..4 : fs[DataPaths[i]] = File(StoredData[<<"X_train", "X_test", "y_train", "y_test">>[i]])
    /\ fs[feature_pipeline_path] = File(StoredPipeline)
    /\ fs[best_model_path] = File(rf_grid_search.best_estimator_)
    /\ fs[best_model_path].data # old_model

----------------------------------------------------------------------------
(* C22 *)

DecisionPrinted == Printed(SaveMsg) \/ Printed(KeepMsg)

----------------------------------------------------------------------------
(* C23 *)

\* C23: the two accuracies Section 6 compares are those of the incumbent and
\* of the forest search's best estimator on the test partition, whatever the
\* logistic-regression search found; a step that changes the best-model file
\* writes the forest search's best estimator, a random forest and not the
\* logistic-regression search's estimator; and no call of the run dumps
\* old_model.
C23_OnlyForestPersisted ==
    [][/\ pc' \in {"decide", "done"} =>
             /\ new_test_acc' =
                   accuracy_score(y_test', predict(rf_grid_search'.best_estimator_, X_test').val)
             /\ old_test_acc' = accuracy_score(y_test', predict(old_model', X_test').val)
       /\ fs'[best_model_path] # fs[best_model_path] =>
             /\ fs'[best_model_path] = File(rf_grid_search.best_estimator_)
             /\ fs'[best_model_path].data.cls = RF
             /\ fs'[best_model_path].data # log_reg_grid_search.best_estimator_
       /\ \A i \in DOMAIN calls' :
             calls'[i][1] = "dump" => calls'[i] = DumpCall]_vars

\* the logistic-regression estimator classifies more of the test partition
\* correctly than the forest and than the incumbent, and the forest is saved
C23_Witness ==
    /\ pc = "done"
    /\ Called(DumpCall)
    /\ fs[best_model_path] = File(rf_grid_search.best_estimator_)
    /\ TestCorrect(log_reg_grid_search.best_estimator_) > TestCorrect(rf_grid_search.best_estimator_)
    /\ TestCorrect(log_reg_grid_search.best_estimator_) > TestCorrect(old_model)

----------------------------------------------------------------------------
(* C24 *)

StepLabels == {"step", "no_step"}
SourceLabels == {"device", "step"}

\* validation queries 2 and 4 on a set of rows
InvalidLabelRows(rows) ==
    invalid_rows(rows, "step_label", StepLabels) \o invalid_rows(rows, "source_label", SourceLabels)

\* C24: between the set-up cell and the template cell final_df is the four
\* sample rows, and queries 2 and 4 select none of them; from the template
\* cell on every row of final_df has step_label step or no_step and
\* source_label device or step, none NULL, and a row whose heart_rate is NULL
\* or at most 100 is labelled no_step and device; once the final write is
\* done the curated table holds those rows and queries 2 and 4 return zero
\* rows of it.
C24_LabelsAlwaysValid ==
    /\ etl_pc \in {"write_demo", "validate", "template"} =>
          /\ final_df = sample_data
          /\ Len(final_df) = 4
          /\ InvalidLabelRows(final_df) = <<>>
    /\ etl_pc \in {"write_final", "done"} =>
          /\ \A i \in DOMAIN final_df :
                /\ final_df[i].step_label \in StepLabels
                /\ final_df[i].source_label \in SourceLabels
                /\ final_df[i].step_label # NULL /\ final_df[i].source_label # NULL
                /\ final_df[i].step_label = "step" <=> final_df[i].source_label = "step"
          /\ InvalidLabelRows(final_df) = <<>>
    /\ etl_pc = "done" =>
          /\ catalog[labeled_step_test] = Table(final_df)
          /\ InvalidLabelRows(catalog[labeled_step_test].rows) = <<>>

\* the final write is done and the table holds the row of the reading whose
\* heart_rate is NULL, labelled no_step and device, beside a step row
C24_Witness ==
    /\ etl_pc = "done"
    /\ \E i \in DOMAIN catalog[labeled_step_test].rows :
          catalog[labeled_step_test].rows[i] = Row("CUST-102", "DEV-202", "no_step", "device")
    /\ \E i \in DOMAIN catalog[labeled_step_test].rows :
          catalog[labeled_step_test].rows[i] = Row("CUST-101", "DEV-201", "step", "step")

----------------------------------------------------------------------------
(* C25 *)

NoMissing(df) == \A i \in 1..Len(df) : df[i].price # NaN /\ df[i].category # NaN

Cleaned == is_unique(menu_df, "menu_item_id") /\ NoMissing(menu_df)

\* C25: the cleaning cell leaves menu_df without a missing price or category
\* and keeps its ids unique if they were; the drop_duplicates cell leaves its
\* menu_item_id values unique and brings no missing value back; the merge
\* cells leave menu_df as it is.  The correct merge run on a menu_df in that
\* state raises nothing and gives merged_df one row for each row of order_df,
\* in order_df's order, matched or not.
C25_CleanedMergeKeepsRows ==
    [][/\ last_cell' = "clean" =>
             /\ NoMissing(menu_df')
             /\ is_unique(menu_df, "menu_item_id") => is_unique(menu_df', "menu_item_id")
       /\ last_cell' = "drop_duplicates" =>
             /\ is_unique(menu_df', "menu_item_id")
             /\ NoMissing(menu_df) => NoMissing(menu_df')
       /\ last_cell' \in {"merge", "bad_merge"} => menu_df' = menu_df
       /\ (last_cell' = "merge" /\ Cleaned) =>
             /\ cell_err' = "none"
             /\ Len(merged_df') = Len(order_df)
             /\ \A i \in 1..Len(order_df) :
                   /\ merged_df'[i].order_id = order_df[i].order_id
                   /\ merged_df'[i].item_id = order_df[i].item_id]_vars

\* the menu file had a repeated id and a missing value, both cleaning cells
\* took rows away, and the merge gave one row for each order row, one of them
\* without a match
C25_Witness ==
    /\ last_cell = "merge" /\ cell_err = "none"
    /\ ~is_unique(volume.menu_items, "menu_item_id")
    /\ ~NoMissing(volume.menu_items)
    /\ Cleaned
    /\ Len(menu_df) < Len(volume.menu_items)
    /\ Len(merged_df) = Len(order_df)
    /\ Len(order_df) > 1
    /\ \E i \in 1..Len(merged_df) : merged_df[i].menu_item_id = NaN /\ merged_df[i].item_id # NaN
    /\ \E i \in 1..Len(merged_df) : merged_df[i].menu_item_id = merged_df[i].item_id

====
